---- MODULE Spec2Model ----
(***************************************************************************)
(* Model of zad_z_mod1.py: the contact directory (AddressBook), the note   *)
(* collection (Notebook), the tag manager (Tag) and their pickle stores.   *)
(*                                                                         *)
(* Strings are sequences of code points, so that substring search,         *)
(* str.lower(), str.strip(), str.replace() and int() are computed and not  *)
(* assumed.  AddressBook.data is a finite map from integer keys to         *)
(* records; the properties below count occurrences and never depend on     *)
(* the dict's insertion order, so iteration is taken in ascending key      *)
(* order.                                                                  *)
(***************************************************************************)
EXTENDS Integers, Sequences, FiniteSets, TLC

VARIABLES data, next_id, free_ids, book_file, notes, notes_file, out

vars == <<data, next_id, free_ids, book_file, notes, notes_file, out>>

bookVars == <<data, next_id, free_ids, book_file>>
noteVars == <<notes, notes_file>>

\* ------------------------------------------------------------------ bounds
\* at most this many live records in the directory
MaxRecords == 2
\* at most this many notes in the notebook
MaxNotes == 2
\* at most this many tags in the tag list of one note
MaxTags == 2

\* ----------------------------------------------------------------- strings
EmptyMap == <<>>

IsDigit(c) == c >= 48 /\ c <= 57
IsUpper(c) == c >= 65 /\ c <= 90
IsLowerCh(c) == c >= 97 /\ c <= 122
IsAlnum(c) == IsDigit(c) \/ IsUpper(c) \/ IsLowerCh(c)

\* str.lower() on the ASCII letters used here
lower(s) == [i \in 1..Len(s) |-> IF IsUpper(s[i]) THEN s[i] + 32 ELSE s[i]]

\* Python's  a in b  on strings
IsSubstring(a, b) ==
    \E i \in 0..(Len(b) - Len(a)) : SubSeq(b, i + 1, i + Len(a)) = a

RECURSIVE lstrip(_)
lstrip(s) == IF s # <<>> /\ Head(s) = 32 THEN lstrip(Tail(s)) ELSE s

RECURSIVE rstrip(_)
rstrip(s) ==
    IF s # <<>> /\ s[Len(s)] = 32 THEN rstrip(SubSeq(s, 1, Len(s) - 1)) ELSE s

\* str.strip()
strip(s) == rstrip(lstrip(s))

\* the literal "ID: "
IdPrefix == <<73, 68, 58, 32>>

\* str.replace(old, "") : every non-overlapping occurrence, left to right
RECURSIVE replace_with_empty(_, _)
replace_with_empty(s, old) ==
    IF Len(s) < Len(old) THEN s
    ELSE IF SubSeq(s, 1, Len(old)) = old
         THEN replace_with_empty(SubSeq(s, Len(old) + 1, Len(s)), old)
         ELSE <<Head(s)>> \o replace_with_empty(Tail(s), old)

RECURSIVE DigitsValue(_)
DigitsValue(s) ==
    IF s = <<>> THEN 0
    ELSE 10 * DigitsValue(SubSeq(s, 1, Len(s) - 1)) + (s[Len(s)] - 48)

AllDigits(s) == s # <<>> /\ \A i \in 1..Len(s) : IsDigit(s[i])

\* int(s): optional surrounding blanks, optional sign, decimal digits;
\* anything else raises ValueError (ok = FALSE)
int(s) ==
    LET t == strip(s)
        signed == t # <<>> /\ (t[1] = 45 \/ t[1] = 43)
        body == IF signed THEN Tail(t) ELSE t
    IN  IF AllDigits(body)
        THEN [ok |-> TRUE,
              val |-> IF signed /\ t[1] = 45 THEN 0 - DigitsValue(body)
                      ELSE DigitsValue(body)]
        ELSE [ok |-> FALSE, val |-> 0]

\* the decimal text of a small natural number
Str(n) == IF n < 10 THEN <<48 + n>> ELSE <<48 + (n \div 10), 48 + (n % 10)>>

\* -------------------------------------------------------- field validators
\* PhoneNumber.validate_phone : ^\d{9}$
validate_phone(value) ==
    Len(value) = 9 /\ \A i \in 1..9 : IsDigit(value[i])

LocalChar(c) == IsAlnum(c) \/ c \in {95, 46, 43, 45}
DomainChar(c) == IsAlnum(c) \/ c = 45
TailChar(c) == IsAlnum(c) \/ c \in {45, 46}

\* EmailAddress.validate_email : ^[a-zA-Z0-9_.+-]+@[a-zA-Z0-9-]+\.[a-zA-Z0-9-.]+$
validate_email(value) ==
    \E i \in 1..Len(value) : \E j \in 1..Len(value) :
        /\ value[i] = 64
        /\ value[j] = 46
        /\ i > 1
        /\ j > i + 1
        /\ j < Len(value)
        /\ \A k \in 1..(i - 1) : LocalChar(value[k])
        /\ \A k \in (i + 1)..(j - 1) : DomainChar(value[k])
        /\ \A k \in (j + 1)..Len(value) : TailChar(value[k])

\* ------------------------------------------------------------------ inputs
NameAl == <<65, 108>>
NameA == <<97>>
Phone1 == <<49, 50, 51, 52, 53, 54, 55, 56, 57>>
PhoneBad == <<49, 50, 120>>
Email1 == <<49, 64, 97, 46, 98>>
EmailBad == <<97, 46, 98>>

\* what the user types into create_record: name, phone lines, email lines
RecordInputs ==
    { [name |-> NameAl, phones |-> <<PhoneBad, Phone1>>, emails |-> <<Email1>>],
      [name |-> NameA, phones |-> <<>>, emails |-> <<EmailBad>>] }

\* search phrases: "1", "AL", "@", "9", "z"
SearchTerms == { <<49>>, <<65, 76>>, <<64>>, <<57>>, <<122>> }

\* what the user types when asked for an id: "0".."n", "ID: 1", "x", "",
\* " 2 ", "-1"
IdInputs ==
    { Str(n) : n \in 0..(MaxRecords + 1) }
        \cup { IdPrefix \o Str(1), <<120>>, <<>>, <<32, 50, 32>>, <<45, 49>> }

\* names typed into delete_record: "AL", "z"
NameInputs == { <<65, 76>>, <<122>> }

\* id lines typed into delete_record: "1", "2", "ID: 1", "x"
LineInputs == { Str(1), Str(2), IdPrefix \o Str(1), <<120>> }

\* ------------------------------------------------------------------ Record
\* Record.__init__ : no id yet (None is written 0), empty lists
Record(name) ==
    [id |-> 0, name |-> name, phone_numbers |-> <<>>, email_addresses |-> <<>>]

\* create_record: every line that fails validation is reported and skipped
create_record(inp) ==
    [Record(inp.name) EXCEPT
        !.phone_numbers = SelectSeq(inp.phones, validate_phone),
        !.email_addresses = SelectSeq(inp.emails, validate_email)]

\* ------------------------------------------------------------- AddressBook
\* AddressBook.__init__
AddressBook == [data |-> EmptyMap, next_id |-> 1, free_ids |-> {}]

min(S) == CHOOSE x \in S : \A y \in S : x <= y

\* add_record without its while loop
AdvanceNextId_NoLoop(d, f, n) == n

\* the while loop of add_record
RECURSIVE AdvanceNextId(_, _, _)
AdvanceNextId(d, f, n) ==
    IF n \in DOMAIN d \/ n \in f THEN AdvanceNextId(d, f, n + 1) ELSE n

\* add_record taking the largest free id
AssignedId_Largest(b) ==
    IF b.free_ids # {}
    THEN CHOOSE x \in b.free_ids : \A y \in b.free_ids : x >= y
    ELSE AdvanceNextId(b.data, b.free_ids, b.next_id)

\* the id add_record gives to the record
AssignedId(b) ==
    IF b.free_ids # {} THEN min(b.free_ids)
    ELSE AdvanceNextId(b.data, b.free_ids, b.next_id)

Put(d, k, v) == [x \in (DOMAIN d) \cup {k} |-> IF x = k THEN v ELSE d[x]]

Remove(d, k) == [x \in (DOMAIN d) \ {k} |-> d[x]]

\* add_record without  self.next_id += 1
add_record_NoBump(b, record) ==
    LET n == AdvanceNextId(b.data, b.free_ids, b.next_id)
        id == AssignedId(b)
    IN  [data |-> Put(b.data, id, [record EXCEPT !.id = id]),
         next_id |-> n,
         free_ids |-> b.free_ids \ {id}]

\* AddressBook.add_record as a function of the book
add_record(b, record) ==
    LET n == AdvanceNextId(b.data, b.free_ids, b.next_id)
        id == AssignedId(b)
    IN  [data |-> Put(b.data, id, [record EXCEPT !.id = id]),
         next_id |-> IF b.free_ids # {} THEN n ELSE n + 1,
         free_ids |-> b.free_ids \ {id}]

\* a deletion that does not remember the id it frees
delete_id_ForgetsId(b, record_id) ==
    IF record_id \in DOMAIN b.data
    THEN [b EXCEPT !.data = Remove(b.data, record_id)]
    ELSE b

\* a deletion that advances next_id
delete_id_MovesNextId(b, record_id) ==
    IF record_id \in DOMAIN b.data
    THEN [b EXCEPT !.data = Remove(b.data, record_id),
                   !.free_ids = b.free_ids \cup {record_id},
                   !.next_id = b.next_id + 1]
    ELSE b

\* the deletion both delete_record_by_id and delete_record perform
delete_id(b, record_id) ==
    IF record_id \in DOMAIN b.data
    THEN [b EXCEPT !.data = Remove(b.data, record_id),
                   !.free_ids = b.free_ids \cup {record_id}]
    ELSE b

Book == [data |-> data, next_id |-> next_id, free_ids |-> free_ids]

SetBook(b) ==
    /\ data' = b.data
    /\ next_id' = b.next_id
    /\ free_ids' = b.free_ids

\* the last operation: its name, the id or position it acted on, what it
\* printed, the phrase or tag it was given, and the list it returned
NoOut == [op |-> "none", id |-> 0, msg |-> "", arg |-> <<>>, found |-> <<>>]

\* ---------------------------------------------------------------- searches
RECURSIVE Ascending(_)
Ascending(S) == IF S = {} THEN <<>> ELSE <<min(S)>> \o Ascending(S \ {min(S)})

AnyMatch(term, values) == \E i \in 1..Len(values) : IsSubstring(term, values[i])

\* what one pass of the for-loop of find_record appends for one record
FoundFor(record, search_term) ==
    IF IsSubstring(lower(search_term), lower(record.name))
    THEN <<record>>
    ELSE (IF AnyMatch(search_term, record.phone_numbers) THEN <<record>> ELSE <<>>)
         \o (IF AnyMatch(search_term, record.email_addresses) THEN <<record>> ELSE <<>>)

RECURSIVE FindOver(_, _, _)
FindOver(keys, d, search_term) ==
    IF keys = <<>> THEN <<>>
    ELSE FoundFor(d[Head(keys)], search_term) \o FindOver(Tail(keys), d, search_term)

\* AddressBook.find_record
find_record(d, search_term) == FindOver(Ascending(DOMAIN d), d, search_term)

\* find_records_by_name without .lower()
RECURSIVE FindByNameOver_CaseSensitive(_, _, _)
FindByNameOver_CaseSensitive(keys, d, name) ==
    IF keys = <<>> THEN <<>>
    ELSE (IF IsSubstring(name, d[Head(keys)].name)
          THEN << <<Head(keys), d[Head(keys)]>> >> ELSE <<>>)
         \o FindByNameOver_CaseSensitive(Tail(keys), d, name)

RECURSIVE FindByNameOver(_, _, _)
FindByNameOver(keys, d, name) ==
    IF keys = <<>> THEN <<>>
    ELSE (IF IsSubstring(lower(name), lower(d[Head(keys)].name))
          THEN << <<Head(keys), d[Head(keys)]>> >> ELSE <<>>)
         \o FindByNameOver(Tail(keys), d, name)

\* AddressBook.find_records_by_name
find_records_by_name(d, name) == FindByNameOver(Ascending(DOMAIN d), d, name)

\* ------------------------------------------------------------- persistence
Missing == [state |-> "missing", content |-> <<>>]
Corrupt == [state |-> "corrupt", content |-> <<>>]
Stored(c) == [state |-> "ok", content |-> c]

\* what pickle.dump(book.data, file) puts in the store
PickledBook(b) == b.data

\* load_address_book that never reads the store
load_address_book_Fresh(file) == AddressBook

\* load_address_book as a function of the store
load_address_book(file) ==
    IF file.state = "ok"
    THEN [AddressBook EXCEPT !.data = file.content]
    ELSE AddressBook


\* ---------------------------------------------------------------- Notebook
\* note contents typed by the user: "x", "y"
Contents == { <<120>>, <<121>> }

\* tags typed by the user: "a", "b"
Tags == { <<97>>, <<98>> }

\* Note.__init__ (created_at is only ever printed and is left out)
Note(content) == [content |-> content, tags |-> <<>>]

\* Note.add_tag
Note_add_tag(note, tag) == [note EXCEPT !.tags = Append(note.tags, tag)]

\* Notebook.add_note
add_note(ns, note_content) == Append(ns, Note(note_content))

InRange(ns, pos) == 1 <= pos /\ pos <= Len(ns)

\* delete_note with  del self.notes[note_id]
delete_note_OffByOne(ns, note_id) ==
    IF InRange(ns, note_id)
    THEN SubSeq(ns, 1, note_id) \o SubSeq(ns, note_id + 2, Len(ns))
    ELSE ns

\* Notebook.delete_note
delete_note(ns, note_id) ==
    IF InRange(ns, note_id)
    THEN SubSeq(ns, 1, note_id - 1) \o SubSeq(ns, note_id + 1, Len(ns))
    ELSE ns

\* Tag.add_tag
Tag_add_tag(ns, note_index, tag) ==
    IF InRange(ns, note_index)
    THEN [ns EXCEPT ![note_index] = Note_add_tag(ns[note_index], tag)]
    ELSE ns

\* ', '.join(tags)
RECURSIVE join(_)
join(tags) ==
    IF tags = <<>> THEN <<>>
    ELSE IF Len(tags) = 1 THEN tags[1]
    ELSE tags[1] \o <<44, 32>> \o join(Tail(tags))

\* Notebook.show_notes: the tag text printed for each note, by position
show_notes(ns) == [i \in 1..Len(ns) |-> join(ns[i].tags)]

\* what pickle.dump(self.notes, file) puts in the store
PickledNotes(ns) == ns

\* Notebook.load_notes as a function of the notes in memory and the store
load_notes(ns, file) ==
    IF file.state = "ok" THEN file.content
    ELSE IF file.state = "missing" THEN <<>>
    ELSE ns

\* a store left by an earlier session: one note "y" tagged "b"
EarlierNotes == << Note_add_tag(Note(<<121>>), <<98>>) >>

\* --------------------------------------------------------------------- Tag
\* Python's  a < b  on strings: code point by code point, a proper prefix
\* comes first
StrLess(a, b) ==
    \E i \in 1..Len(b) :
        /\ Len(a) >= i - 1
        /\ \A j \in 1..(i - 1) : a[j] = b[j]
        /\ (Len(a) = i - 1 \/ a[i] < b[i])

\* sorted() that gives the greatest string first
RECURSIVE sorted_Reversed(_)
sorted_Reversed(S) ==
    IF S = {} THEN <<>>
    ELSE LET last == CHOOSE x \in S : \A y \in S \ {x} : StrLess(y, x)
         IN  <<last>> \o sorted_Reversed(S \ {last})

\* sorted(all_tags)
RECURSIVE sorted(_)
sorted(S) ==
    IF S = {} THEN <<>>
    ELSE LET first == CHOOSE x \in S : \A y \in S \ {x} : StrLess(x, y)
         IN  <<first>> \o sorted(S \ {first})

\* tag in note.tags
TagIn(tag, note) == \E i \in 1..Len(note.tags) : note.tags[i] = tag

\* [note for note in self.notes.notes if tag in note.tags]
RECURSIVE NotesWith(_, _)
NotesWith(ns, tag) ==
    IF ns = <<>> THEN <<>>
    ELSE (IF TagIn(tag, Head(ns)) THEN <<Head(ns)>> ELSE <<>>)
         \o NotesWith(Tail(ns), tag)

\* Tag.search_tag
search_tag(ns, tag) == NotesWith(ns, tag)

\* set(tag for note in self.notes.notes for tag in note.tags)
AllTags(ns) == {ns[i].tags[j] : <<i, j>> \in
                  {p \in (1..Len(ns)) \X (1..MaxTags + 1) : p[2] <= Len(ns[p[1]].tags)}}

\* Tag.sort_tags: the dict as the list of its items, in insertion order
sort_tags(ns) ==
    LET keys == sorted(AllTags(ns))
    IN  [i \in 1..Len(keys) |-> [tag |-> keys[i], notes |-> NotesWith(ns, keys[i])]]

\* ------------------------------------------------------------- edit_record
\* a Python value with its type: the keys of book.data are ints, what
\* input() returns is a str
PyInt(n) == [type |-> "int", val |-> n]

PyStr(s) == [type |-> "str", val |-> s]

\* a == b : values of different types are not equal
PyEq(a, b) == a.type = b.type /\ a.val = b.val

\* the keys of book.data that equal x ; x in book.data  is  KeysEqual # {}
KeysEqual(d, x) == {key \in DOMAIN d : PyEq(PyInt(key), x)}

\* Record.edit_name
edit_name(record, new_name) == [record EXCEPT !.name = new_name]

\* list.remove of the entry at position idx (counted from 0) and append of
\* the new value: edit_phone_number, edit_email_address
edit_entry(list, idx, new_value) ==
    SubSeq(list, 1, idx) \o SubSeq(list, idx + 2, Len(list)) \o <<new_value>>

\* the phone or e-mail part of edit_record: index_line and new_line are the
\* lines typed, new_valid is what the validator of the new value says;
\* ok is FALSE when the constructor of the new value raises ValueError
EditListed(list, index_line, new_line, new_valid) ==
    IF /\ list # <<>>
       /\ AllDigits(index_line)
       /\ DigitsValue(index_line) - 1 \in 0..(Len(list) - 1)
       /\ strip(new_line) # <<>>
    THEN IF new_valid
         THEN [ok |-> TRUE,
               list |-> edit_entry(list, DigitsValue(index_line) - 1, new_line)]
         ELSE [ok |-> FALSE, list |-> list]
    ELSE [ok |-> TRUE, list |-> list]

\* edit_record: the directory it leaves and what it printed last
edit_record(d, inp) ==
    IF KeysEqual(d, PyStr(inp.name_to_edit)) = {}
    THEN [data |-> d, msg |-> "not found"]
    ELSE LET key    == CHOOSE k \in KeysEqual(d, PyStr(inp.name_to_edit)) : TRUE
             named  == IF strip(inp.new_name_input) # <<>>
                       THEN edit_name(d[key], inp.new_name_input)
                       ELSE d[key]
             phones == EditListed(named.phone_numbers, inp.phone_to_edit,
                                  inp.new_phone_number,
                                  validate_phone(inp.new_phone_number))
             phoned == [named EXCEPT !.phone_numbers = phones.list]
             emails == EditListed(phoned.email_addresses, inp.email_to_edit,
                                  inp.new_email, validate_email(inp.new_email))
             mailed == [phoned EXCEPT !.email_addresses = emails.list]
         IN  IF ~phones.ok THEN [data |-> Put(d, key, named), msg |-> "ValueError"]
             ELSE IF ~emails.ok
             THEN [data |-> Put(d, key, phoned), msg |-> "ValueError"]
             ELSE [data |-> Put(d, key, mailed), msg |-> "updated"]

\* what the user types into edit_record: the name "Al", "a", "z" or "1",
\* a new name "z" or nothing, the index "1" or nothing, the new values
EditInputs ==
    [ name_to_edit : {NameAl, NameA, <<122>>, Str(1)},
      new_name_input : {<<122>>, <<>>},
      phone_to_edit : {Str(1), <<>>},
      new_phone_number : {Phone1, PhoneBad},
      email_to_edit : {Str(1)},
      new_email : {Email1} ]

\* ---------------------------------------------------------------- datetime
\* a datetime: a calendar date and the seconds elapsed since its midnight;
\* ok is FALSE for the ValueError that the constructor raises
ValueError == [ok |-> FALSE, year |-> 0, month |-> 0, day |-> 0, second |-> 0]

IsLeap(y) == y % 4 = 0 /\ (y % 100 # 0 \/ y % 400 = 0)

DaysInMonth(y, m) ==
    IF m = 2 THEN (IF IsLeap(y) THEN 29 ELSE 28)
    ELSE IF m \in {4, 6, 9, 11} THEN 30 ELSE 31

ValidDate(y, m, d) ==
    /\ y \in 1..9999
    /\ m \in 1..12
    /\ d \in 1..DaysInMonth(y, m)

\* datetime(y, m, d, 0, 0, s)
datetime(y, m, d, s) ==
    IF ValidDate(y, m, d)
    THEN [ok |-> TRUE, year |-> y, month |-> m, day |-> d, second |-> s]
    ELSE ValueError

DaysBeforeYear(y) ==
    (y - 1) * 365 + ((y - 1) \div 4) - ((y - 1) \div 100) + ((y - 1) \div 400)

RECURSIVE DaysBeforeMonth(_, _)
DaysBeforeMonth(y, m) ==
    IF m = 1 THEN 0 ELSE DaysBeforeMonth(y, m - 1) + DaysInMonth(y, m - 1)

\* the proleptic Gregorian ordinal of the date of t
toordinal(t) == DaysBeforeYear(t.year) + DaysBeforeMonth(t.year, t.month) + t.day

\* the positions of the hyphens of s
Hyphens(s) == {i \in 1..Len(s) : s[i] = 45}

\* datetime.strptime(s, "%Y-%m-%d"): four digits, one or two digits, one or
\* two digits, and midnight as the time of day
strptime(s) ==
    IF Cardinality(Hyphens(s)) # 2 THEN ValueError
    ELSE LET h1 == CHOOSE i \in Hyphens(s) : \A j \in Hyphens(s) : i <= j
             h2 == CHOOSE i \in Hyphens(s) : \A j \in Hyphens(s) : j <= i
             Y  == SubSeq(s, 1, h1 - 1)
             m  == SubSeq(s, h1 + 1, h2 - 1)
             d  == SubSeq(s, h2 + 1, Len(s))
         IN  IF /\ AllDigits(Y) /\ Len(Y) = 4
                /\ AllDigits(m) /\ Len(m) <= 2
                /\ AllDigits(d) /\ Len(d) <= 2
             THEN datetime(DigitsValue(Y), DigitsValue(m), DigitsValue(d), 0)
             ELSE ValueError

\* t.replace(year=y)
replace_year(t, y) == datetime(y, t.month, t.day, t.second)

\* a > b
Later(a, b) ==
    \/ toordinal(a) > toordinal(b)
    \/ toordinal(a) = toordinal(b) /\ a.second > b.second

\* (a - b).days
days_between(a, b) ==
    ((toordinal(a) - toordinal(b)) * 86400 + a.second - b.second) \div 86400

\* Record.days_to_birthdate, today being datetime.now(); birthdate <<>> is
\* the record without a birthdate
days_to_birthdate(birthdate, today) ==
    IF birthdate = <<>> THEN [msg |-> "Brak daty urodzenia", days |-> 0]
    ELSE LET bday == strptime(birthdate)
             this_year == IF bday.ok THEN replace_year(bday, today.year)
                          ELSE ValueError
             next_birthday ==
                 IF this_year.ok /\ Later(today, this_year)
                 THEN replace_year(this_year, today.year + 1)
                 ELSE this_year
         IN  IF next_birthday.ok
             THEN [msg |-> "", days |-> days_between(next_birthday, today)]
             ELSE [msg |-> "ValueError", days |-> 0]

\* the text of a date as it is typed, YYYY-MM-DD
isoformat(y, m, d) ==
    << 48 + (y \div 1000), 48 + ((y \div 100) % 10), 48 + ((y \div 10) % 10),
       48 + (y % 10), 45 >> \o Str(m \div 10) \o Str(m % 10) \o <<45>>
       \o Str(d \div 10) \o Str(d % 10)

\* the days of the year that the clock and the birthdates are drawn from
MonthDays ==
    { <<1, 1>>, <<2, 28>>, <<2, 29>>, <<3, 1>>, <<6, 14>>, <<6, 15>>,
      <<6, 16>>, <<12, 30>>, <<12, 31>> }

\* a year before a leap year, and a leap year
ClockYears == {2023, 2024}

\* midnight, one second past it, noon, the last second of the day
ClockSeconds == {0, 1, 43200, 86399}

\* the values datetime.now() is drawn from
Instants ==
    { t \in { datetime(y, md[1], md[2], sec) :
                y \in ClockYears, md \in MonthDays, sec \in ClockSeconds } :
        t.ok }

\* the birthdates that BirthDate accepted, and no birthdate
BirthdateInputs ==
    { b \in { isoformat(2000, md[1], md[2]) : md \in MonthDays } :
        strptime(b).ok } \cup {<<>>}

\* ----------------------------------------------------------------- actions
InitMemory ==
    /\ data = AddressBook.data
    /\ next_id = AddressBook.next_id
    /\ free_ids = AddressBook.free_ids
    /\ notes = <<>>
    /\ out = NoOut

InitBook ==
    /\ InitMemory
    /\ book_file \in {Missing, Corrupt}
    /\ notes_file = Missing

InitStores ==
    /\ InitMemory
    /\ book_file = Missing
    /\ notes_file = Missing

InitNotes ==
    /\ InitMemory
    /\ book_file = Missing
    /\ notes_file \in {Missing, Corrupt, Stored(PickledNotes(EarlierNotes))}

\* self.book.add_record(create_record())
AddRecord(inp) ==
    /\ Cardinality(DOMAIN data) < MaxRecords
    /\ SetBook(add_record(Book, create_record(inp)))
    /\ out' = [NoOut EXCEPT !.op = "add_record", !.id = AssignedId(Book)]
    /\ UNCHANGED <<book_file, noteVars>>

Deleted(parsed, line) ==
    [NoOut EXCEPT
        !.arg = line,
        !.id = parsed.val,
        !.msg = IF parsed.val \in DOMAIN data THEN "deleted" ELSE "not found"]

\* AddressBook.delete_record_by_id with the typed line user_input
DeleteRecordById(user_input) ==
    LET record_id_str == strip(replace_with_empty(strip(user_input), IdPrefix))
        parsed == int(record_id_str)
    IN  /\ IF parsed.ok
           THEN /\ SetBook(delete_id(Book, parsed.val))
                /\ out' = [Deleted(parsed, user_input) EXCEPT
                             !.op = "delete_record_by_id"]
           ELSE /\ UNCHANGED <<data, next_id, free_ids>>
                /\ out' = [NoOut EXCEPT !.op = "delete_record_by_id",
                                        !.arg = user_input,
                                        !.msg = "invalid id"]
        /\ UNCHANGED <<book_file, noteVars>>

\* AddressBook.delete_record with the typed name and the typed id line
DeleteRecord(name_to_delete, line) ==
    LET matching_records == find_records_by_name(data, name_to_delete)
        parsed == int(line)
    IN  /\ IF matching_records = <<>>
           THEN /\ UNCHANGED <<data, next_id, free_ids>>
                /\ out' = [NoOut EXCEPT !.op = "delete_record",
                                        !.msg = "no match"]
           ELSE IF parsed.ok
           THEN /\ SetBook(delete_id(Book, parsed.val))
                /\ out' = [Deleted(parsed, line) EXCEPT !.op = "delete_record"]
           ELSE /\ UNCHANGED <<data, next_id, free_ids>>
                /\ out' = [NoOut EXCEPT !.op = "delete_record",
                                        !.arg = line,
                                        !.msg = "invalid id"]
        /\ UNCHANGED <<book_file, noteVars>>

\* found = self.book.find_record(search_term)
FindRecord(search_term) ==
    /\ out' = [NoOut EXCEPT !.op = "find_record", !.arg = search_term,
                            !.found = find_record(data, search_term)]
    /\ UNCHANGED <<bookVars, noteVars>>

\* save_address_book: the dump succeeds, or open() fails and the store is
\* untouched, or the write fails after open() truncated the store
SaveAddressBook ==
    /\ \/ /\ book_file' = Stored(PickledBook(Book))
          /\ out' = [NoOut EXCEPT !.op = "save_address_book", !.msg = "saved"]
       \/ /\ book_file' = book_file
          /\ out' = [NoOut EXCEPT !.op = "save_address_book", !.msg = "error"]
       \/ /\ book_file' = Corrupt
          /\ out' = [NoOut EXCEPT !.op = "save_address_book", !.msg = "error"]
    /\ UNCHANGED <<data, next_id, free_ids, noteVars>>

LoadMessage(file) ==
    IF file.state = "ok" THEN "loaded"
    ELSE IF file.state = "missing" THEN "no file"
    ELSE "error"

\* self.book = load_address_book()
LoadAddressBook ==
    /\ SetBook(load_address_book(book_file))
    /\ out' = [NoOut EXCEPT !.op = "load_address_book",
                            !.msg = LoadMessage(book_file)]
    /\ UNCHANGED <<book_file, noteVars>>

\* self.notebook.add_note(note_content)
AddNote(note_content) ==
    /\ Len(notes) < MaxNotes
    /\ notes' = add_note(notes, note_content)
    /\ out' = [NoOut EXCEPT !.op = "add_note", !.id = Len(notes) + 1]
    /\ UNCHANGED <<bookVars, notes_file>>

\* self.notebook.delete_note(note_id)
DeleteNote(note_id) ==
    /\ notes' = delete_note(notes, note_id)
    /\ out' = [NoOut EXCEPT
                 !.op = "delete_note",
                 !.id = note_id,
                 !.msg = IF InRange(notes, note_id) THEN "deleted"
                         ELSE "no such note"]
    /\ UNCHANGED <<bookVars, notes_file>>

\* self.tag_manager.add_tag(note_index, tag_content)
AddTag(note_index, tag) ==
    /\ InRange(notes, note_index) => Len(notes[note_index].tags) < MaxTags
    /\ notes' = Tag_add_tag(notes, note_index, tag)
    /\ out' = [NoOut EXCEPT
                 !.op = "add_tag",
                 !.id = note_index,
                 !.arg = tag,
                 !.msg = IF InRange(notes, note_index) THEN "added"
                         ELSE "bad number"]
    /\ UNCHANGED <<bookVars, notes_file>>

\* Notebook.save_notes, with the outcomes of save_address_book
SaveNotes ==
    /\ \/ /\ notes_file' = Stored(PickledNotes(notes))
          /\ out' = [NoOut EXCEPT !.op = "save_notes", !.msg = "saved"]
       \/ /\ notes_file' = notes_file
          /\ out' = [NoOut EXCEPT !.op = "save_notes", !.msg = "error"]
       \/ /\ notes_file' = Corrupt
          /\ out' = [NoOut EXCEPT !.op = "save_notes", !.msg = "error"]
    /\ UNCHANGED <<bookVars, notes>>

\* self.notebook.load_notes()
LoadNotes ==
    /\ notes' = load_notes(notes, notes_file)
    /\ out' = [NoOut EXCEPT !.op = "load_notes",
                            !.msg = LoadMessage(notes_file)]
    /\ UNCHANGED <<bookVars, notes_file>>

\* sorted_tags = self.tag_manager.sort_tags()
SortTags ==
    /\ out' = [NoOut EXCEPT !.op = "sort_tags", !.found = sort_tags(notes)]
    /\ UNCHANGED <<bookVars, noteVars>>

Positions == 0..(MaxNotes + 1)

NextBook ==
    \/ \E inp \in RecordInputs : AddRecord(inp)
    \/ \E line \in IdInputs : DeleteRecordById(line)
    \/ \E name \in NameInputs : \E line \in LineInputs : DeleteRecord(name, line)
    \/ \E term \in SearchTerms : FindRecord(term)
    \/ SaveAddressBook
    \/ LoadAddressBook

NextNotes ==
    \/ \E c \in Contents : AddNote(c)
    \/ \E pos \in Positions : DeleteNote(pos)
    \/ \E pos \in Positions : \E tag \in Tags : AddTag(pos, tag)
    \/ LoadNotes
    \/ SortTags

\* the two stores side by side, with one kind of record and of note
NextStores ==
    \/ AddRecord(CHOOSE inp \in RecordInputs : inp.name = NameAl)
    \/ \E n \in 1..2 : DeleteRecordById(Str(n))
    \/ SaveAddressBook
    \/ LoadAddressBook
    \/ \E c \in Contents : AddNote(c)
    \/ DeleteNote(1)
    \/ SaveNotes
    \/ LoadNotes

SpecBook == InitBook /\ [][NextBook]_vars

SpecNotes == InitNotes /\ [][NextNotes]_vars

SpecStores == InitStores /\ [][NextStores]_vars

\* edit_record(self.book)
EditRecord(inp) ==
    LET r == edit_record(data, inp)
    IN  /\ data' = r.data
        /\ out' = [NoOut EXCEPT !.op = "edit_record", !.msg = r.msg,
                                !.arg = inp.name_to_edit,
                                !.found = <<inp.new_name_input>>]
        /\ UNCHANGED <<next_id, free_ids, book_file, noteVars>>

\* a directory changed by add_record and delete_record_by_id alone
NextDirectory ==
    \/ \E inp \in RecordInputs : AddRecord(inp)
    \/ \E line \in IdInputs : DeleteRecordById(line)

SpecDirectory == InitStores /\ [][NextDirectory]_vars

\* the contacts menu without load: add, delete by id, edit
NextEdit ==
    \/ \E inp \in RecordInputs : AddRecord(inp)
    \/ \E n \in 1..MaxRecords : DeleteRecordById(Str(n))
    \/ \E inp \in EditInputs : EditRecord(inp)

SpecEdit == InitStores /\ [][NextEdit]_vars

\* self.days_to_birthdate() of a record, at one reading of the clock
DaysToBirthdate(birthdate, today) ==
    LET r == days_to_birthdate(birthdate, today)
    IN  /\ out' = [NoOut EXCEPT !.op = "days_to_birthdate", !.id = r.days,
                                !.msg = r.msg, !.arg = birthdate,
                                !.found = <<today>>]
        /\ UNCHANGED <<bookVars, noteVars>>

NextBirthday ==
    \E birthdate \in BirthdateInputs : \E today \in Instants :
        DaysToBirthdate(birthdate, today)

SpecBirthday == InitStores /\ [][NextBirthday]_vars

\* ------------------------------------------------------------------ claims
Live == DOMAIN data

BookUnchanged == data' = data /\ free_ids' = free_ids /\ next_id' = next_id

\* C1: no two live records share an id, every live record is stored under
\* the key equal to its own id, and add_record gives an id that was not a
\* live key before the call, keeps every record that was there and makes
\* the number of live records grow by exactly one.
IdsNeverDuplicated ==
    /\ [](\A j \in Live : \A k \in Live :
            data[k].id = k /\ (data[j].id = data[k].id => j = k))
    /\ [][out'.op = "add_record" =>
            /\ out'.id \notin Live
            /\ DOMAIN data' = Live \cup {out'.id}
            /\ data'[out'.id].id = out'.id
            /\ \A k \in Live : data'[k] = data[k]
            /\ Cardinality(DOMAIN data') = Cardinality(Live) + 1]_vars

\* C1 witness: an add_record on a directory hydrated from the store, where
\* next_id still lags behind a live id
AddAfterLoadSeen ==
    /\ out.op = "add_record"
    /\ next_id \in Live
    /\ Cardinality(Live) = 2

\* C2: when free_ids is not empty at an add_record call, the record gets
\* the smallest free id and that id leaves free_ids, also when higher ids
\* are live.
SmallestFreeIdReused ==
    [][(out'.op = "add_record" /\ free_ids # {}) =>
            /\ out'.id \in free_ids
            /\ \A f \in free_ids : out'.id <= f
            /\ free_ids' = free_ids \ {out'.id}
            /\ out'.id \in DOMAIN data']_vars

\* C2 witness: add A (1), add B (2), delete A, add C: C has id 1 while the
\* higher id 2 is live
FreedIdReusedSeen ==
    /\ out.op = "add_record"
    /\ out.id = 1
    /\ 2 \in Live
    /\ next_id = 3
    /\ free_ids = {}

NextIdPast == \A k \in Live \cup free_ids : next_id > k

\* C3 as stated: in every reachable state next_id is greater than every id
\* that is live or in free_ids.
NextIdPastEveryId == NextIdPast

\* C3 amended: next_id is greater than every live or free id in a newly
\* constructed directory, and add_record, both deletions and save keep it
\* so; only load_address_book, which restores the records into a directory
\* whose next_id is 1, breaks it.
NextIdPastUnlessLoaded ==
    /\ NextIdPast
    /\ [][(NextIdPast /\ out'.op # "load_address_book") => NextIdPast']_vars

\* C3 witness: an add_record that minted a new id next to a freed one
NextIdPastSeen ==
    /\ out.op = "add_record"
    /\ out.id = 2
    /\ NextIdPast
    /\ next_id = 3
    /\ Live = {1, 2}

Blank == <<32>>

\* the lines a deletion reads as the integer n
ReadsAs(op, n) ==
    IF op = "delete_record_by_id"
    THEN {Str(n), IdPrefix \o Str(n), Blank \o Str(n) \o Blank}
    ELSE {Str(n), Blank \o Str(n) \o Blank}

\* C4: a deletion given the id of a live record removes that record, puts
\* the id into free_ids and leaves every other record, its key and next_id
\* alone; given anything else it reports a failure and leaves the records,
\* free_ids and next_id alone.
DeleteByIdContract ==
    [][out'.op \in {"delete_record_by_id", "delete_record"} =>
        IF out'.op = "delete_record" /\ out'.msg = "no match"
        THEN BookUnchanged
        ELSE IF \E n \in Live : out'.arg \in ReadsAs(out'.op, n)
        THEN \A n \in Live : out'.arg \in ReadsAs(out'.op, n) =>
                /\ out'.msg = "deleted"
                /\ DOMAIN data' = Live \ {n}
                /\ \A k \in Live \ {n} : data'[k] = data[k]
                /\ free_ids' = free_ids \cup {n}
                /\ next_id' = next_id
        ELSE /\ out'.msg \in {"not found", "invalid id"}
             /\ BookUnchanged]_vars

\* C4 witness: "ID: 1" typed into delete_record_by_id removed record 1 and
\* left record 2
DeletedByIdSeen ==
    /\ out.op = "delete_record_by_id"
    /\ out.msg = "deleted"
    /\ out.arg = IdPrefix \o Str(1)
    /\ Live = {2}
    /\ 1 \in free_ids

\* the matches find_records_by_name returns for the name of the record the
\* last add_record stored
FoundByOwnName == find_records_by_name(data, data[out.id].name)

NameContains(r, name) == IsSubstring(lower(name), lower(r.name))

\* C5 as stated: add_record followed at once by find_records_by_name with
\* the record's exact name returns exactly one match, carrying the new id.
AddThenFindGivesOneMatch ==
    out.op = "add_record" =>
        Len(FoundByOwnName) = 1 /\ FoundByOwnName[1][1] = out.id

\* C5 amended: the result holds the pair of the new id and the new record
\* exactly once, every match is a live record under its own key, and the
\* result has exactly one match exactly when no other live record has a
\* name that contains the new name (case-insensitively).
AddThenFindHoldsNewRecordOnce ==
    out.op = "add_record" =>
        /\ Cardinality({i \in 1..Len(FoundByOwnName) :
                           FoundByOwnName[i][1] = out.id}) = 1
        /\ \A i \in 1..Len(FoundByOwnName) :
                /\ FoundByOwnName[i][1] \in Live
                /\ FoundByOwnName[i][2] = data[FoundByOwnName[i][1]]
        /\ Len(FoundByOwnName) = 1 <=>
                ~ \E k \in Live \ {out.id} :
                      NameContains(data[k], data[out.id].name)

\* C5 witness: "a" was added next to "Al" and the search by "a" returns both
TwoMatchesSeen ==
    /\ out.op = "add_record"
    /\ data[out.id].name = NameA
    /\ Len(FoundByOwnName) = 2
    /\ \E k \in Live : data[k].name = NameAl

TermMatches(r, term) ==
    \/ IsSubstring(lower(term), lower(r.name))
    \/ \E i \in 1..Len(r.phone_numbers) : IsSubstring(term, r.phone_numbers[i])
    \/ \E i \in 1..Len(r.email_addresses) : IsSubstring(term, r.email_addresses[i])

\* C6: find_record returns a live record exactly once when the phrase
\* matches its name (case-insensitively) or one of its phone numbers or
\* one of its email addresses, also when several match, and not at all
\* otherwise.
FindRecordReturnsEachOnce ==
    out.op = "find_record" =>
        \A k \in Live :
            Cardinality({i \in 1..Len(out.found) : out.found[i].id = k})
                = IF TermMatches(data[k], out.arg) THEN 1 ELSE 0

\* what a later session can do to the directory: add a record, delete an id
BookOps ==
    {[kind |-> "add", id |-> 0]}
        \cup {[kind |-> "delete", id |-> n] : n \in 1..MaxRecords}

OpSeqs == [1..1 -> BookOps] \cup [1..2 -> BookOps]

\* the ids the add_record calls of ops are given, starting from book b
RECURSIVE IdsAssigned(_, _)
IdsAssigned(b, ops) ==
    IF ops = <<>> THEN <<>>
    ELSE IF Head(ops).kind = "add"
    THEN <<AssignedId(b)>>
             \o IdsAssigned(add_record(b, Record(NameAl)), Tail(ops))
    ELSE IdsAssigned(delete_id(b, Head(ops).id), Tail(ops))

SavedAndLoaded == load_address_book(Stored(PickledBook(Book)))

\* C7 as stated: saving the directory and loading it back gives the same
\* id-to-record mapping and a directory that assigns the same ids to every
\* later sequence of adds and deletes, and saving then loading the notes
\* gives the same note sequence.
RoundTripEquivalent ==
    /\ SavedAndLoaded.data = data
    /\ \A ops \in OpSeqs :
            IdsAssigned(SavedAndLoaded, ops) = IdsAssigned(Book, ops)
    /\ load_notes(notes, Stored(PickledNotes(notes))) = notes

\* C7 amended: a load that follows a successful save reports no error and
\* gives back the same id-to-record mapping, in a directory whose next_id
\* is 1 and whose free_ids is empty (so later adds need not get the ids the
\* unsaved directory would give); a load_notes that follows a successful
\* save_notes gives back the same ordered note sequence; an empty
\* collection comes back empty.
SaveThenLoadRestores ==
    [][/\ (out.op = "save_address_book" /\ out.msg = "saved"
              /\ out'.op = "load_address_book") =>
                /\ out'.msg = "loaded"
                /\ data' = data
                /\ next_id' = 1
                /\ free_ids' = {}
       /\ (out.op = "save_notes" /\ out.msg = "saved"
              /\ out'.op = "load_notes") =>
                /\ out'.msg = "loaded"
                /\ notes' = notes]_vars

\* C7 witness: the directory was loaded back from the store that holds its
\* records, with a freed id lost, next to notes that are in their store
RoundTripSeen ==
    /\ out.op = "load_address_book"
    /\ out.msg = "loaded"
    /\ book_file = Stored(data)
    /\ Live = {2}
    /\ next_id = 1
    /\ notes_file = Stored(notes)
    /\ Len(notes) = 2
    /\ notes[1] # notes[2]

\* C8: after a load from a store that is missing or cannot be read, the
\* collection in memory is empty, whatever it held before.
LoadDegradesToEmpty ==
    /\ (out.op = "load_notes" /\ notes_file.state # "ok") => notes = <<>>
    /\ (out.op = "load_address_book" /\ book_file.state # "ok") =>
            data = EmptyMap

\* C9: delete_note(pos) outside [1, len] fails and leaves the notes as they
\* are; inside [1, len] it removes the note at pos: the notes before pos
\* stay, the notes after pos move down by one, the length drops by one.
DeleteNoteContract ==
    [][out'.op = "delete_note" =>
        IF out'.id < 1 \/ out'.id > Len(notes)
        THEN notes' = notes /\ out'.msg = "no such note"
        ELSE /\ out'.msg = "deleted"
             /\ Len(notes') = Len(notes) - 1
             /\ \A i \in 1..(out'.id - 1) : notes'[i] = notes[i]
             /\ \A i \in out'.id..(Len(notes) - 1) : notes'[i] = notes[i + 1]]_vars

\* C9 witness: position 1 of two different notes was deleted and the
\* second note is now at position 1
NoteShiftedDownSeen ==
    /\ out.op = "delete_note"
    /\ out.msg = "deleted"
    /\ out.id = 1
    /\ notes = << [content |-> <<121>>, tags |-> << <<97>> >>] >>

Has(tags, tag) == \E i \in 1..Len(tags) : tags[i] = tag

\* C10: add_tag at a position outside [1, len] fails and changes no note;
\* at a valid position it adds the tag to that note only, and when the note
\* already has the tag from an earlier add_tag, the note's tags and the tags
\* shown by show_notes stay as they were.
AddTagIdempotent ==
    [][out'.op = "add_tag" =>
        IF out'.id < 1 \/ out'.id > Len(notes)
        THEN notes' = notes /\ out'.msg = "bad number"
        ELSE /\ Len(notes') = Len(notes)
             /\ \A i \in 1..Len(notes) : i # out'.id => notes'[i] = notes[i]
             /\ notes'[out'.id].content = notes[out'.id].content
             /\ Has(notes'[out'.id].tags, out'.arg)
             /\ Has(notes[out'.id].tags, out'.arg) =>
                    /\ notes'[out'.id].tags = notes[out'.id].tags
                    /\ show_notes(notes') = show_notes(notes)]_vars

\* the positions of the notes that carry the tag
Carriers(tag) == {p \in 1..Len(notes) : Has(notes[p].tags, tag)}

\* list holds exactly the notes at the positions P, each once, in the order
\* of the positions
InCollectionOrder(list, P) ==
    /\ Len(list) = Cardinality(P)
    /\ \E f \in [1..Len(list) -> P] :
            /\ \A i \in 1..Len(list) : \A j \in 1..Len(list) :
                    i < j => f[i] < f[j]
            /\ \A i \in 1..Len(list) : list[i] = notes[f[i]]

\* notes tagged {b}, {a}, {a, b}
ExampleNotes ==
    << Note_add_tag(Note(<<120>>), <<98>>),
       Note_add_tag(Note(<<121>>), <<97>>),
       Note_add_tag(Note_add_tag(Note(<<120>>), <<97>>), <<98>>) >>

\* C11: sort_tags returns a mapping whose keys are exactly the distinct tags
\* of the current notes, in ascending lexicographic order, and whose value
\* for a tag is the notes carrying it, each once, in collection order, equal
\* to search_tag of that tag; notes tagged {b},{a},{a,b} give keys [a, b]
\* with a -> notes 2, 3 and b -> notes 1, 3.
SortTagsGroupsByTag ==
    /\ out.op = "sort_tags" =>
          /\ {out.found[i].tag : i \in 1..Len(out.found)}
                = {t \in Tags : Carriers(t) # {}}
          /\ \A i \in 1..Len(out.found) : \A j \in 1..Len(out.found) :
                i < j => StrLess(out.found[i].tag, out.found[j].tag)
          /\ \A i \in 1..Len(out.found) :
                /\ InCollectionOrder(out.found[i].notes,
                                     Carriers(out.found[i].tag))
                /\ out.found[i].notes = search_tag(notes, out.found[i].tag)
    /\ sort_tags(ExampleNotes)
          = << [tag |-> <<97>>, notes |-> <<ExampleNotes[2], ExampleNotes[3]>>],
               [tag |-> <<98>>, notes |-> <<ExampleNotes[1], ExampleNotes[3]>>] >>

\* C11 witness: sort_tags ran on notes tagged [b, b] and [a, b] and put a,
\* carried by note 2 alone, before b, carried by both notes
TagsGroupedSeen ==
    /\ out.op = "sort_tags"
    /\ Len(notes) = 2
    /\ notes[1].tags = << <<98>>, <<98>> >>
    /\ notes[2].tags = << <<97>>, <<98>> >>
    /\ Len(out.found) = 2
    /\ out.found[1].tag = <<97>>
    /\ out.found[1].notes = <<notes[2]>>
    /\ out.found[2].notes = notes

\* the day after the date of t
Tomorrow(t) ==
    IF t.day < DaysInMonth(t.year, t.month)
    THEN [t EXCEPT !.day = t.day + 1]
    ELSE IF t.month < 12 THEN [t EXCEPT !.month = t.month + 1, !.day = 1]
    ELSE [t EXCEPT !.year = t.year + 1, !.month = 1, !.day = 1]

\* the day before the date of t
Yesterday(t) ==
    IF t.day > 1 THEN [t EXCEPT !.day = t.day - 1]
    ELSE IF t.month > 1
    THEN [t EXCEPT !.month = t.month - 1,
                   !.day = DaysInMonth(t.year, t.month - 1)]
    ELSE [t EXCEPT !.year = t.year - 1, !.month = 12, !.day = 31]

SameMonthDay(a, b) == a.month = b.month /\ a.day = b.day

\* C12: at every instant, any date and any time of day, days_to_birthdate
\* returns 0 for a birthdate whose month and day are today's, 1 for a
\* birthdate whose month and day are those of the day after today in this
\* year, and 364 or 365 for a birthdate whose month and day are those of the
\* day before today.
DaysToBirthdateCountsWholeDays ==
    out.op = "days_to_birthdate" /\ out.arg # <<>> =>
        LET today == out.found[1]
            bday  == strptime(out.arg)
        IN  /\ SameMonthDay(bday, today) => out.msg = "" /\ out.id = 0
            /\ (/\ SameMonthDay(bday, Tomorrow(today))
                /\ Tomorrow(today).year = today.year)
                    => out.msg = "" /\ out.id = 1
            /\ SameMonthDay(bday, Yesterday(today))
                    => out.msg = "" /\ out.id \in {364, 365}

\* the ids of the live records whose name is n
Named(n) == {k \in Live : data[k].name = n}

\* C13: edit reaches live contacts: given the name n of a record that
\* add_record stored and that is still live, edit_record finds the record
\* and, when a non-empty new name is supplied, replaces the record's name
\* with it; the not-found outcome occurs only when no live record
\* corresponds to the input.
EditReachesLiveContacts ==
    [][out'.op = "edit_record" =>
        /\ Named(out'.arg) # {} =>
              /\ out'.msg # "not found"
              /\ strip(out'.found[1]) # <<>> =>
                    \E k \in Named(out'.arg) : data'[k].name = out'.found[1]
        /\ out'.msg = "not found" => Named(out'.arg) = {}]_vars

\* C14: in a directory that starts empty and is changed only by add_record
\* and deletion by id, without load, every add_record assigns the smallest
\* positive integer that is not the id of a live record, free_ids is always
\* disjoint from the live ids, and every positive integer below next_id is
\* live or in free_ids.
SmallestIdWithoutLoad ==
    /\ [](/\ Live \cap free_ids = {}
          /\ \A k \in 1..(next_id - 1) : k \in Live \cup free_ids)
    /\ [][out'.op = "add_record" =>
            /\ out'.id >= 1
            /\ out'.id \notin Live
            /\ \A k \in 1..(out'.id - 1) : k \in Live
            /\ Live' = Live \cup {out'.id}]_vars

\* C14 witness: ids 1 and 2 were given and both freed, and the next
\* add_record gave 1 again and left 2 free
SmallestOfTwoFreedSeen ==
    /\ out.op = "add_record"
    /\ out.id = 1
    /\ Live = {1}
    /\ free_ids = {2}
    /\ next_id = 3
====
